---- MODULE Spec2Model ----
(***************************************************************************)
(* bevy-particles: the spawn scheduler (spawn_particles), the lifetime     *)
(* reaper (handle_lifetimes), the update systems of update.rs and the      *)
(* schedule ParticlesPlugin::build registers them in.                      *)
(*                                                                         *)
(* Instants and Durations are integers counting ticks; NanosPerSec ticks   *)
(* make one second, so that Duration::as_secs / subsec_nanos / new keep    *)
(* their two-part shape.  A pose is one translation component, held as an  *)
(* exact fraction [n, d] (d = 0: the non-finite f32 values); f32 rounding  *)
(* is not modelled.  The emitter is one entity; particles are the entities *)
(* its factory creates, identified by their index in the entity store.     *)
(***************************************************************************)
EXTENDS Integers, Sequences, FiniteSets, TLC

VARIABLES
    clock,      \* Time::last_update(): None or an Instant
    delta,      \* Time::delta(): ticks between the last two clock updates
    emitter,    \* the emitter entity: Spewer fields, transforms, trackers
    start,      \* the emitter's last_spawn at construction (history)
    loc,        \* spawn_particles' locals while it runs
    cmds,       \* the Commands queue of the running schedule (deferred)
    particles,  \* the entity store: every particle ever created, by id
    phase,      \* position in the frame
    ran         \* Update systems that have run in this frame

vars == <<clock, delta, emitter, start, loc, cmds, particles, phase, ran>>

----------------------------------------------------------------------------
\* Bounds of the model.
NanosPerSec == 2
MaxTime == 5
MaxStart == 1
MaxInterval == 2
MaxJitter == 3
MaxPose == 1
MaxLifetime == 2
\* iterations of one catch-up loop that are explored
MaxCatchUp == 8

\* Option::None for an Option<Instant> / Option<Duration>
None == -1

----------------------------------------------------------------------------
\* std::time::Duration, scaled to NanosPerSec ticks a second

as_secs(d) == d \div NanosPerSec

subsec_nanos(d) == d % NanosPerSec

DurationNew(secs, nanos) == secs * NanosPerSec + nanos

saturating_sub(a, b) == IF a >= b THEN a - b ELSE 0

\* Instant::duration_since saturates to zero
duration_since(later, earlier) == IF later >= earlier THEN later - earlier ELSE 0

\* mutant: the distance between the two instants, whichever is later
checked_duration_since_AbsDiff(later, earlier) ==
    IF later >= earlier THEN later - earlier ELSE earlier - later

checked_duration_since(later, earlier) ==
    IF later >= earlier THEN later - earlier ELSE None

----------------------------------------------------------------------------
\* f32 arithmetic as exact fractions; [n |-> 1, d |-> 0] is +inf,
\* [n |-> -1, d |-> 0] is -inf, [n |-> 0, d |-> 0] is NaN.

RECURSIVE GCD(_, _)
GCD(a, b) == IF b = 0 THEN a ELSE GCD(b, a % b)

Abs(x) == IF x < 0 THEN -x ELSE x

Sign(x) == IF x > 0 THEN 1 ELSE IF x < 0 THEN -1 ELSE 0

Norm(n, d) ==
    IF d = 0 THEN [n |-> Sign(n), d |-> 0]
    ELSE LET s == IF d < 0 THEN -1 ELSE 1
             g == GCD(Abs(n), Abs(d))
         IN  [n |-> (s * n) \div g, d |-> (s * d) \div g]

F(i) == [n |-> i, d |-> 1]

FAdd(a, b) ==
    IF a.d = 0 /\ b.d = 0 THEN (IF a = b THEN a ELSE [n |-> 0, d |-> 0])
    ELSE Norm(a.n * b.d + b.n * a.d, a.d * b.d)

FSub(a, b) == FAdd(a, [n |-> -b.n, d |-> b.d])

FMul(a, b) == Norm(a.n * b.n, a.d * b.d)

FDiv(a, b) == Norm(a.n * b.d, a.d * b.n)

as_secs_f32(d) == Norm(d, NanosPerSec)

IDENTITY == F(0)

----------------------------------------------------------------------------
\* Components (lib.rs, update.rs) and the queries of the systems

\* ParticleBundle: MaterialMeshBundle, Lifetime, TimeCreated and the two
\* initial transforms
ParticleBundle ==
    {"Handle<Mesh>", "Handle<Material>", "Transform", "GlobalTransform",
     "Visibility", "ComputedVisibility", "Lifetime", "TimeCreated",
     "InitialTransform", "InitialGlobalTransform"}

\* the fields of the WorldQuery ParticleData
ParticleData ==
    {"Handle<Mesh>", "Transform", "GlobalTransform", "InitialTransform",
     "InitialGlobalTransform", "Visibility", "ComputedVisibility",
     "TimeCreated", "Lifetime"}

\* the particle record a factory must at least create
ParticleRecord ==
    {"Transform", "GlobalTransform", "InitialTransform",
     "InitialGlobalTransform", "TimeCreated", "Lifetime"}

Behaviors ==
    {"Linear", "Angular", "MulScale", "AddScale", "TargetScale",
     "TargetTransform", "DynParticleUpdate"}

\* the components each system's Query asks for
QueryOf(system) ==
    CASE system = "Linear" ->
            {"Linear", "Transform", "InitialTransform", "TimeCreated"}
      [] system = "Angular" -> {"Angular", "Transform"}
      [] system = "MulScale" -> {"MulScale", "Transform"}
      [] system = "AddScale" -> {"AddScale", "Transform"}
      [] system = "TargetScale" ->
            {"TargetScale", "Transform", "InitialTransform", "TimeCreated",
             "Lifetime"}
      [] system = "TargetTransform" ->
            {"TargetTransform", "Transform", "InitialTransform",
             "TimeCreated", "Lifetime"}
      [] system = "DynParticleUpdate" -> {"DynParticleUpdate"} \cup ParticleData
      [] system = "handle_lifetimes" -> {"TimeCreated", "Lifetime"}

\* mutant: despawned entities are still iterated
Matches_Despawned(system, p) == QueryOf(system) \subseteq p.components

\* an entity is iterated by a system's Query iff it exists and carries every
\* component the Query asks for
Matches(system, p) == p.alive /\ QueryOf(system) \subseteq p.components

\* the systems ParticlesPlugin::build adds to Update
UpdateSystems == Behaviors \cup {"handle_lifetimes"}

----------------------------------------------------------------------------
\* Factories.  default_factory is the crate's; the other two stand for the
\* closures a host passes to Spewer::new: both store the pose and the
\* TimeCreated they are handed and attach every update behavior; one spawns a
\* ParticleBundle, the other the particle record without mesh or visibility.

Factories ==
    {"default_factory", "bundle_factory", "record_factory", "reset_factory"}

\* Instant::now() read while the frame runs, at the resolution of the model
InstantNow(now) == now

NewParticle(components, transform, created, lifetime, pose, stamp, callback) ==
    [alive |-> TRUE, components |-> components, transform |-> transform,
     initial_transform |-> transform, time_created |-> created,
     callback |-> callback,                      \* the boxed ParticleUpdateFn
     initial_at_creation |-> transform,          \* what was written at creation
     overshot |-> FALSE,            \* a tick of this frame computed s > 1
     overshot_before |-> FALSE,     \* a tick of an earlier frame did
     lifetime |-> lifetime, parent |-> FALSE,
     handed_pose |-> pose, stamp |-> stamp,      \* what the factory was handed
     born |-> TRUE, ticked |-> {}, dyn_calls |-> 0, despawns |-> 0]

default_factory(pose, stamp, now) ==
    NewParticle(ParticleBundle, IDENTITY, InstantNow(now), NanosPerSec,
                pose, stamp, "none")

bundle_factory(pose, stamp, lifetime) ==
    NewParticle(ParticleBundle \cup Behaviors, pose.translation, stamp, lifetime,
                pose, stamp, "observe")

\* the pose a resetting callback stores
ResetPose == F(1)

\* like bundle_factory, with a callback that uses the mutable access it is
\* given to store a pose of its own as the initial transform
reset_factory(pose, stamp, lifetime) ==
    NewParticle(ParticleBundle \cup Behaviors, pose.translation, stamp, lifetime,
                pose, stamp, "reset")

record_factory(pose, stamp, lifetime) ==
    NewParticle(ParticleRecord \cup Behaviors, pose.translation, stamp, lifetime,
                pose, stamp, "observe")

CallFactory(e, pose, stamp, now) ==
    CASE e.factory = "default_factory" -> default_factory(pose, stamp, now)
      [] e.factory = "bundle_factory" ->
            bundle_factory(pose, stamp, e.factory_lifetime)
      [] e.factory = "record_factory" ->
            record_factory(pose, stamp, e.factory_lifetime)
      [] e.factory = "reset_factory" ->
            reset_factory(pose, stamp, e.factory_lifetime)

----------------------------------------------------------------------------
\* Commands: deferred until the schedule's apply_deferred

SpawnCmd(id, bundle) == [op |-> "spawn", id |-> id, bundle |-> bundle]

AddChildCmd(child) == [op |-> "add_child", id |-> child]

DespawnCmd(id) == [op |-> "despawn", id |-> id]

\* Commands::spawn reserves the new entity's id at once
ReservedId(store, queue) ==
    Len(store) + Cardinality({i \in 1..Len(queue) : queue[i].op = "spawn"}) + 1

ApplyOne(store, c) ==
    CASE c.op = "spawn" -> Append(store, c.bundle)
      [] c.op = "add_child" ->
            IF c.id \in 1..Len(store) /\ store[c.id].alive
            THEN [store EXCEPT ![c.id].parent = TRUE] ELSE store
      [] c.op = "despawn" ->
            IF c.id \in 1..Len(store) /\ store[c.id].alive
            THEN [store EXCEPT ![c.id].alive = FALSE] ELSE store

RECURSIVE ApplyAll(_, _)
ApplyAll(store, queue) ==
    IF queue = <<>> THEN store
    ELSE ApplyAll(ApplyOne(store, Head(queue)), Tail(queue))

----------------------------------------------------------------------------
\* spawn_particles (lib.rs:181-256), one emitter entity

Idle == [pc |-> "idle", remaining |-> 0, curr_xform |-> IDENTITY,
         step |-> IDENTITY, curr_scale |-> IDENTITY, step_scale |-> IDENTITY]

\* Vec3::ONE, the scale of Transform::IDENTITY and of every emitter here: the
\* host moves the emitter and never rescales it
ONE == F(1)

\* lib.rs:196-212: the emitter's velocity since the last frame, times interval
Step(e, dt) ==
    LET vel == IF e.prev_global_xform.has
               THEN FDiv(FSub(e.global_xform, e.prev_global_xform.v),
                         as_secs_f32(dt))
               ELSE IDENTITY
    IN  FMul(vel, as_secs_f32(e.interval))

\* lib.rs:196-212, the scale of the same Transform: the emitter's scale has
\* not changed since the last frame, and without a tracker the velocity is
\* Transform::IDENTITY, whose scale is ONE
StepScale(e, dt) ==
    LET vel == IF e.prev_global_xform.has
               THEN FDiv(FSub(ONE, ONE), as_secs_f32(dt))
               ELSE ONE
    IN  FMul(vel, as_secs_f32(e.interval))

\* lib.rs:213-217, the scale: the tracked and the current one are both ONE
SeedScale(e) == ONE

\* lib.rs:213-217
SeedXform(e) ==
    IF e.prev_global_xform.has THEN e.prev_global_xform.v ELSE e.global_xform

\* mutant: the loop needs more than one interval of backlog
LoopCond_Strict(remaining, interval) == remaining > interval

\* mutant: any backlog at all starts an iteration
LoopCond_Eager(remaining, interval) == remaining > 0

\* lib.rs:222
LoopCond(remaining, interval) == remaining >= interval

\* mutant: the whole jitter bounds the seconds part
JitterSamples_WholeAsSecs(jitter) ==
    {DurationNew(s, n) : s \in 0..jitter, n \in 0..subsec_nanos(jitter)}

\* lib.rs:225-228: the two parts of the jitter are drawn independently
JitterSamples(jitter) ==
    {DurationNew(s, n) : s \in 0..as_secs(jitter), n \in 0..subsec_nanos(jitter)}

\* mutant: only the jitter is taken off the backlog
NextRemaining_JitterOnly(remaining, interval, sample) ==
    saturating_sub(remaining, sample)

\* lib.rs:223-229
NextRemaining(remaining, interval, sample) ==
    saturating_sub(remaining, interval + sample)

\* mutant: last_spawn jumps to the clock
NextLastSpawn_Now(last_spawn, interval, sample, now) == now

\* mutant: last_spawn inherits the jitter
NextLastSpawn_WithJitter(last_spawn, interval, sample, now) ==
    last_spawn + interval + sample

\* lib.rs:230
NextLastSpawn(last_spawn, interval, sample, now) == last_spawn + interval

\* lib.rs:233: TimeCreated(*last_spawn), after the advance
StampOf(advanced, now) == advanced

\* mutant: the coordinate mode is not consulted
AddsChild_Always(use_global_coords) == TRUE

\* lib.rs:235
AddsChild(use_global_coords) == ~use_global_coords

\* lib.rs:245-254: each tracker the emitter carries takes the current value
RefreshTrackers(e) ==
    [e EXCEPT
       !.prev_xform.v = IF e.prev_xform.has /\ @ # e.xform THEN e.xform ELSE @,
       !.prev_global_xform.v =
           IF e.prev_global_xform.has /\ @ # e.global_xform
           THEN e.global_xform ELSE @]

\* lib.rs:186-220: the locals, then the two `continue`s, which also skip the
\* refresh of the trackers
SpawnBegin ==
    /\ phase = "PreUpdate"
    /\ loc.pc = "idle"
    /\ LET remaining == IF clock = None THEN None
                        ELSE checked_duration_since(clock, emitter.last_spawn)
       IN  IF remaining = None
           THEN /\ phase' = "ApplyPre"
                /\ loc' = loc
           ELSE /\ phase' = phase
                /\ loc' = [pc |-> "loop", remaining |-> remaining,
                           curr_xform |-> SeedXform(emitter),
                           step |-> Step(emitter, delta),
                           curr_scale |-> SeedScale(emitter),
                           step_scale |-> StepScale(emitter, delta)]
    /\ UNCHANGED <<clock, delta, emitter, start, cmds, particles, ran>>

\* lib.rs:222-244: one iteration of the catch-up loop
SpawnIter ==
    /\ phase = "PreUpdate"
    /\ loc.pc = "loop"
    /\ LoopCond(loc.remaining, emitter.interval)
    /\ Cardinality({i \in 1..Len(cmds) : cmds[i].op = "spawn"}) < MaxCatchUp
    /\ \E sample \in JitterSamples(emitter.jitter) :
         LET advanced == NextLastSpawn(emitter.last_spawn, emitter.interval,
                                       sample, clock)
             id == ReservedId(particles, cmds)
             bundle == CallFactory(emitter,
                                   [translation |-> loc.curr_xform,
                                    scale |-> loc.curr_scale],
                                   StampOf(advanced, clock), clock)
         IN  /\ loc' = [loc EXCEPT
                          !.remaining = NextRemaining(@, emitter.interval, sample),
                          !.curr_xform = FAdd(@, loc.step),
                          !.curr_scale = FAdd(@, loc.step_scale)]
             /\ emitter' = [emitter EXCEPT !.last_spawn = advanced,
                                           !.rng = @ + 2]
             /\ cmds' = cmds \o <<SpawnCmd(id, bundle)>>
                        \o (IF AddsChild(emitter.use_global_coords)
                            THEN <<AddChildCmd(id)>> ELSE <<>>)
    /\ UNCHANGED <<clock, delta, start, particles, phase, ran>>

\* lib.rs:245-255: the loop is left, the trackers are refreshed
SpawnEnd ==
    /\ phase = "PreUpdate"
    /\ loc.pc = "loop"
    /\ ~LoopCond(loc.remaining, emitter.interval)
    /\ emitter' = RefreshTrackers(emitter)
    /\ loc' = Idle
    /\ phase' = "ApplyPre"
    /\ UNCHANGED <<clock, delta, start, cmds, particles, ran>>

\* mutant: PreUpdate's commands stay queued until Update's apply_deferred
ApplyDeferredPreUpdate_Skipped ==
    /\ phase = "ApplyPre"
    /\ ran' = {}
    /\ phase' = "Update"
    /\ UNCHANGED <<clock, delta, emitter, start, loc, cmds, particles>>

\* the apply_deferred that ends the PreUpdate schedule
ApplyDeferredPreUpdate ==
    /\ phase = "ApplyPre"
    /\ particles' = ApplyAll(particles, cmds)
    /\ cmds' = <<>>
    /\ ran' = {}
    /\ phase' = "Update"
    /\ UNCHANGED <<clock, delta, emitter, start, loc>>

----------------------------------------------------------------------------
\* The frame around the plugin's systems

\* between frames the host moves the emitter; transform propagation has set
\* its GlobalTransform by the time the next frame starts
HostMovesEmitter ==
    /\ phase = "First"
    /\ \E p \in 0..MaxPose :
         /\ F(p) # emitter.xform
         /\ emitter' = [emitter EXCEPT !.xform = F(p), !.global_xform = F(p)]
    /\ UNCHANGED <<clock, delta, start, loc, cmds, particles, phase, ran>>

\* the host spawns a particle itself: a ParticleBundle with every update
\* behavior, TimeCreated::default() and the default Lifetime
HostSpawnsParticle ==
    /\ phase = "First"
    /\ particles = <<>>
    /\ particles' =
         <<NewParticle(ParticleBundle \cup Behaviors, IDENTITY,
                       InstantNow(IF clock = None THEN 0 ELSE clock),
                       NanosPerSec,
                       [translation |-> IDENTITY, scale |-> ONE], None,
                       "observe")>>
    /\ UNCHANGED <<clock, delta, emitter, start, loc, cmds, phase, ran>>

\* bevy's time_system in First: Time::update.  A Time resource that is never
\* updated keeps last_update() = None.
TimeSystem ==
    /\ phase = "First"
    /\ \E t \in clock..MaxTime :
         /\ clock' = t
         /\ delta' = IF clock = None \/ t = None THEN 0 ELSE t - clock
    /\ phase' = "PreUpdate"
    /\ UNCHANGED <<emitter, start, loc, cmds, particles, ran>>

\* per-frame history of the entity store is reset when the frame ends
EndFrame(store) ==
    [i \in 1..Len(store) |->
        [store[i] EXCEPT !.born = FALSE, !.ticked = {}, !.dyn_calls = 0,
                         !.overshot = FALSE,
                         !.overshot_before = @ \/ store[i].overshot]]

\* the PreUpdate schedule run on its own: the frame ends after it
PreUpdateOnly ==
    /\ phase = "Update"
    /\ particles' = EndFrame(particles)
    /\ phase' = "First"
    /\ UNCHANGED <<clock, delta, emitter, start, loc, cmds, ran>>

----------------------------------------------------------------------------
\* The systems of the Update schedule.  ParticlesPlugin::build adds the eight
\* of them in one tuple, without ordering constraints: the executor may run
\* them in any order, each once a frame.  Their commands are deferred until
\* the schedule ends.  Of a particle's Transform the translation is modelled;
\* Angular, MulScale, AddScale and TargetScale write rotation and scale only.

\* the parameters the host's factories give the behaviors they attach
LinearVelocity == F(1)

TargetTranslation == F(1)

\* Vec3::lerp
Lerp(a, b, t) == FAdd(a, FMul(FSub(b, a), t))

\* update.rs:16-21
LinearTranslation(p, now) ==
    FAdd(p.initial_transform,
         FMul(LinearVelocity, as_secs_f32(duration_since(now, p.time_created))))

\* update.rs:106-109
TargetTransformTranslation(p, now) ==
    LET elapsed == duration_since(now, p.time_created)
        t == FDiv(as_secs_f32(elapsed), as_secs_f32(p.lifetime))
    IN  Lerp(p.initial_transform, TargetTranslation, t)

\* update.rs:68-75, 96-103: the interpolation parameter elapsed / lifetime
InterpolationParam(p, now) ==
    FDiv(as_secs_f32(duration_since(now, p.time_created)),
         as_secs_f32(p.lifetime))

\* the parameter is past the target: more than 1, +inf included, NaN not
Overshoots(p, now) ==
    LET s == InterpolationParam(p, now)
    IN  IF s.d = 0 THEN s.n = 1 ELSE s.n > s.d

\* mutant: Linear::tick integrates from the initial transform and stores the
\* result back into it
Visit_LinearWritesInitial(system, p, now) ==
    LET q == [p EXCEPT !.ticked = @ \cup {system}]
    IN  CASE system = "Linear" ->
                [q EXCEPT !.transform = LinearTranslation(p, now),
                          !.initial_transform = LinearTranslation(p, now)]
          [] system = "TargetScale" ->
                [q EXCEPT !.overshot = @ \/ Overshoots(p, now)]
          [] system = "TargetTransform" ->
                [q EXCEPT !.transform = TargetTransformTranslation(p, now),
                          !.overshot = @ \/ Overshoots(p, now)]
          [] system = "DynParticleUpdate" ->
                [q EXCEPT !.dyn_calls = @ + 1,
                          !.initial_transform =
                              IF p.callback = "reset" THEN ResetPose ELSE @]
          [] OTHER -> q

\* what a system's for_each does to one entity its Query yields
Visit(system, p, now) ==
    LET q == [p EXCEPT !.ticked = @ \cup {system}]
    IN  CASE system = "Linear" ->
                [q EXCEPT !.transform = LinearTranslation(p, now)]
          [] system = "TargetScale" ->
                [q EXCEPT !.overshot = @ \/ Overshoots(p, now)]
          [] system = "TargetTransform" ->
                [q EXCEPT !.transform = TargetTransformTranslation(p, now),
                          !.overshot = @ \/ Overshoots(p, now)]
          [] system = "DynParticleUpdate" ->
                [q EXCEPT !.dyn_calls = @ + 1,
                          !.initial_transform =
                              IF p.callback = "reset" THEN ResetPose ELSE @]
          [] OTHER -> q

\* t.last_update().unwrap() in a for_each body: panics when it runs on an
\* entity while the clock has no timestamp
Unwraps(system) == system \in {"Linear", "TargetScale", "TargetTransform"}

RunTick(system) ==
    /\ phase = "Update"
    /\ system \notin ran
    /\ IF Unwraps(system) /\ clock = None
          /\ \E i \in 1..Len(particles) : Matches(system, particles[i])
       THEN /\ phase' = "Panicked"
            /\ UNCHANGED <<particles, ran>>
       ELSE /\ particles' =
                 [i \in 1..Len(particles) |->
                     IF Matches(system, particles[i])
                     THEN Visit(system, particles[i], clock)
                     ELSE particles[i]]
            /\ ran' = ran \cup {system}
            /\ phase' = phase
    /\ UNCHANGED <<clock, delta, emitter, start, loc, cmds>>

LinearTick == RunTick("Linear")

AngularTick == RunTick("Angular")

MulScaleTick == RunTick("MulScale")

AddScaleTick == RunTick("AddScale")

TargetScaleTick == RunTick("TargetScale")

TargetTransformTick == RunTick("TargetTransform")

DynParticleUpdateTick == RunTick("DynParticleUpdate")

\* mutant: a particle is given one more tick of the clock
Expired_Lenient(update, created, lifetime) ==
    duration_since(update, created) > lifetime + 1

\* mutant: a particle is reaped when its age reaches its lifetime
Expired_AtLifetime(update, created, lifetime) ==
    duration_since(update, created) >= lifetime

\* lib.rs:84
Expired(update, created, lifetime) == duration_since(update, created) > lifetime

\* lib.rs:82-88: the entities the reaper issues a despawn for
Reaped(store, now) ==
    {i \in 1..Len(store) :
        /\ Matches("handle_lifetimes", store[i])
        /\ now # None
        /\ Expired(now, store[i].time_created, store[i].lifetime)}

RECURSIVE DespawnCmds(_)
DespawnCmds(ids) ==
    IF ids = {} THEN <<>>
    ELSE LET id == CHOOSE i \in ids : \A j \in ids : i <= j
         IN  <<DespawnCmd(id)>> \o DespawnCmds(ids \ {id})

handle_lifetimes ==
    /\ phase = "Update"
    /\ "handle_lifetimes" \notin ran
    /\ LET ids == Reaped(particles, clock)
       IN  /\ cmds' = cmds \o DespawnCmds(ids)
           /\ particles' = [i \in 1..Len(particles) |->
                               IF i \in ids
                               THEN [particles[i] EXCEPT !.despawns = @ + 1]
                               ELSE particles[i]]
    /\ ran' = ran \cup {"handle_lifetimes"}
    /\ UNCHANGED <<clock, delta, emitter, start, loc, phase>>

\* every system of Update has run: the schedule's apply_deferred, and the
\* frame ends
ApplyDeferredUpdate ==
    /\ phase = "Update"
    /\ ran = UpdateSystems
    /\ particles' = EndFrame(ApplyAll(particles, cmds))
    /\ cmds' = <<>>
    /\ ran' = {}
    /\ phase' = "First"
    /\ UNCHANGED <<clock, delta, emitter, start, loc>>

----------------------------------------------------------------------------
\* Initial states: Spewer fields are public, so every value can be set.  The
\* scheduler alone is explored over the widest range of emitters.

Emitters(intervals, jitters, starts, modes, factories, lifetimes, trackers) ==
    {[interval |-> i, jitter |-> j, last_spawn |-> s,
      use_global_coords |-> g, factory |-> f, factory_lifetime |-> l,
      rng |-> 0, xform |-> F(0), global_xform |-> F(0),
      prev_xform |-> [has |-> t, v |-> IDENTITY],
      prev_global_xform |-> [has |-> t, v |-> IDENTITY]] :
        i \in intervals, j \in jitters, s \in starts, g \in modes,
        f \in factories, l \in lifetimes, t \in trackers}

InitFrom(emitters) ==
    /\ clock = None
    /\ delta = 0
    /\ emitter \in emitters
    /\ start = emitter.last_spawn
    /\ loc = Idle
    /\ cmds = <<>>
    /\ particles = <<>>
    /\ phase = "First"
    /\ ran = {}

SchedInit ==
    InitFrom(Emitters(1..MaxInterval, 0..MaxJitter, 0..MaxStart, BOOLEAN,
                      Factories, {MaxLifetime}, BOOLEAN))

SchedNext ==
    \/ TimeSystem
    \/ SpawnBegin
    \/ SpawnIter
    \/ SpawnEnd
    \/ ApplyDeferredPreUpdate
    \/ PreUpdateOnly

SchedSpec == SchedInit /\ [][SchedNext]_vars

\* the scheduler under every interval a Spewer can be built with: Duration
\* is unsigned and no constructor looks at the value
ZeroInit ==
    InitFrom(Emitters(0..MaxInterval, 0..MaxJitter, {0}, {FALSE}, Factories,
                      {MaxLifetime}, {FALSE}))

ZeroSpec == ZeroInit /\ [][SchedNext]_vars

\* the scheduler under an emitter the host moves between frames
PoseInit ==
    InitFrom(Emitters(1..MaxInterval, {0}, {0}, BOOLEAN, Factories,
                      {MaxLifetime}, BOOLEAN))

PoseNext ==
    \/ HostMovesEmitter
    \/ TimeSystem
    \/ SpawnBegin
    \/ SpawnIter
    \/ SpawnEnd
    \/ ApplyDeferredPreUpdate
    \/ PreUpdateOnly

PoseSpec == PoseInit /\ [][PoseNext]_vars

\* the whole frame: First, PreUpdate, Update
Init ==
    InitFrom(Emitters({1}, {0}, {0}, {FALSE}, Factories, 1..MaxLifetime,
                      {TRUE}))

Next ==
    \/ TimeSystem
    \/ SpawnBegin
    \/ SpawnIter
    \/ SpawnEnd
    \/ ApplyDeferredPreUpdate
    \/ LinearTick
    \/ AngularTick
    \/ MulScaleTick
    \/ AddScaleTick
    \/ TargetScaleTick
    \/ TargetTransformTick
    \/ DynParticleUpdateTick
    \/ handle_lifetimes
    \/ ApplyDeferredUpdate

Spec == Init /\ [][Next]_vars

\* the whole frame in a world where the host also spawns a particle
HostInit ==
    InitFrom(Emitters({MaxInterval}, {0}, {0}, {FALSE}, {"default_factory"},
                      {MaxLifetime}, {TRUE}))

HostNext ==
    \/ HostSpawnsParticle
    \/ Next

HostSpec == HostInit /\ [][HostNext]_vars

----------------------------------------------------------------------------
\* Properties of the spawn scheduler

\* the scheduler's pass of this frame is over and its commands are applied
PassDone == phase = "Update"

\* every particle the emitter has spawned, those still in the queue included
Spawned ==
    particles \o
    [k \in 1..Cardinality({i \in 1..Len(cmds) : cmds[i].op = "spawn"}) |->
        (CHOOSE c \in {cmds[i] : i \in 1..Len(cmds)} :
            c.op = "spawn" /\ c.id = Len(particles) + k).bundle]

Stamps == {particles[i].stamp : i \in 1..Len(particles)}

\* the TimeCreated values one pass without jitter hands out, as the loop of
\* lib.rs:222-234 computes them
RECURSIVE OnePass(_, _, _, _)
OnePass(remaining, last_spawn, interval, now) ==
    IF LoopCond(remaining, interval)
    THEN LET advanced == NextLastSpawn(last_spawn, interval, 0, now)
         IN  {StampOf(advanced, now)} \cup
             OnePass(NextRemaining(remaining, interval, 0), advanced,
                     interval, now)
    ELSE {}

C3_JitterBounds ==
    (PassDone /\ emitter.jitter > 0 /\ clock # None /\ clock >= start)
    => LET T == clock - start
       IN  /\ T \div (emitter.interval + emitter.jitter) <= Len(particles)
           /\ Len(particles) <= T \div emitter.interval

C3_Witness ==
    /\ PassDone
    /\ emitter.jitter > 0
    /\ clock # None /\ clock >= start
    /\ Len(particles) = (clock - start) \div (emitter.interval + emitter.jitter)
    /\ Len(particles) >= 1
    /\ Len(particles) < (clock - start) \div emitter.interval

C6_GlobalPoseBaked ==
    (PassDone /\ emitter.use_global_coords)
    => \A i \in 1..Len(particles) :
         particles[i].born => particles[i].transform = emitter.global_xform

\* C7: a spawned particle is a child of the emitter iff the emitter's
\* coordinate mode is local; in global mode it is never parented.
C7_ChildIffLocal ==
    \A i \in 1..Len(particles) :
        particles[i].parent <=> ~emitter.use_global_coords

C7_Witness ==
    /\ Len(particles) >= 2
    /\ ~emitter.use_global_coords
    /\ particles[1].parent
    /\ particles[Len(particles)].born /\ particles[Len(particles)].parent

----------------------------------------------------------------------------
\* Properties of the frame

\* every system of Update has run; its deferred commands are not yet applied
UpdateDone == phase = "Update" /\ ran = UpdateSystems

\* the frame is over: Update's commands are applied
FrameOver == phase = "First"

\* C5: a particle with lifetime L created at t0 still exists after every
\* frame with now - t0 <= L, no longer exists after the first frame with
\* now - t0 > L, and a despawn is issued for it exactly once.
C5_LifetimeExpiry ==
    \A i \in 1..Len(particles) :
        LET p == particles[i]
        IN  /\ p.despawns <= 1
            /\ ~p.alive => p.despawns = 1
            /\ (FrameOver /\ clock # None)
                => (p.alive <=> clock - p.time_created <= p.lifetime)

C5_Witness ==
    /\ FrameOver
    /\ \E i, j \in 1..Len(particles) :
         /\ ~particles[i].alive /\ particles[i].despawns = 1
         /\ particles[j].alive
         /\ clock - particles[j].time_created = particles[j].lifetime
         /\ particles[j].lifetime > 0

\* C8: in every frame handle_lifetimes runs after all seven update ticks.
C8_ReaperRunsLast ==
    "handle_lifetimes" \in ran => Behaviors \subseteq ran

C10_DynOncePerFrame ==
    \A i \in 1..Len(particles) :
        LET p == particles[i]
        IN  /\ (UpdateDone /\ p.alive /\ "DynParticleUpdate" \in p.components)
                => p.dyn_calls = 1
            /\ ~p.alive => p.dyn_calls = 0

\* C10 as amended: the callback is invoked exactly once in every frame in
\* which the particle exists when the particle carries, besides
\* DynParticleUpdate, every component of ParticleData; it is not invoked at
\* all when one is missing, and never in a frame after the removal.
C10_DynOncePerFrameIfBundle ==
    \A i \in 1..Len(particles) :
        LET p == particles[i]
            whole == {"DynParticleUpdate"} \cup ParticleData \subseteq p.components
        IN  /\ (UpdateDone /\ p.alive /\ whole) => p.dyn_calls = 1
            /\ p.dyn_calls <= 1
            /\ (~p.alive \/ ~whole) => p.dyn_calls = 0

C10_Witness ==
    /\ UpdateDone
    /\ \E i, j, k \in 1..Len(particles) :
         /\ ~particles[i].alive
         /\ particles[j].alive /\ ~particles[j].born
         /\ particles[j].despawns = 1 /\ particles[j].dyn_calls = 1
         /\ particles[k].alive /\ particles[k].born
         /\ particles[k].dyn_calls = 1

----------------------------------------------------------------------------
\* Properties of the update behaviors

\* C11: while the clock has no last-update timestamp, Linear::tick,
\* TargetScale::tick and TargetTransform::tick skip the frame: they leave
\* every particle's transform unchanged and complete normally.
C11_SkipWithoutClock ==
    clock = None =>
        /\ phase # "Panicked"
        /\ \A i \in 1..Len(particles) :
             particles[i].transform = particles[i].initial_transform

----------------------------------------------------------------------------
\* Properties of emitter construction

\* C12: an emitter whose interval is 0 is rejected or clamped when it is
\* constructed, so no emitter with interval = 0 reaches the catch-up loop.
C12_NoZeroIntervalInLoop ==
    loc.pc = "loop" => emitter.interval > 0

----------------------------------------------------------------------------
\* Properties of the previous-pose trackers

\* C13: at the end of every frame's spawn pass the PreviousTransform and
\* PreviousGlobalTransform of an emitter equal its current local and world
\* transform, also in the frames in which the emitter is skipped.
C13_TrackersRefreshed ==
    PassDone =>
        /\ emitter.prev_xform.has => emitter.prev_xform.v = emitter.xform
        /\ emitter.prev_global_xform.has =>
             emitter.prev_global_xform.v = emitter.global_xform

----------------------------------------------------------------------------
\* Properties of the pose handed to the factory

\* the spawn commands this pass has queued so far, in order
PassSpawns == SelectSeq(cmds, LAMBDA c : c.op = "spawn")

\* C16: with a previous world pose Pprev, the j-th particle spawned in a frame
\* (j = 0, 1, ...) is handed Pprev + j * step, where
\* step = (Pcur - Pprev) / frameDelta * interval; without a previous-pose
\* tracker every spawn of the frame is handed the current world pose.
C16_Extrapolated ==
    (phase = "PreUpdate" /\ loc.pc = "loop")
    => \A j \in 1..Len(PassSpawns) :
         LET handed == PassSpawns[j].bundle.handed_pose
             Pprev == emitter.prev_global_xform.v
             Pcur == emitter.global_xform
             step == FMul(FDiv(FSub(Pcur, Pprev), as_secs_f32(delta)),
                          as_secs_f32(emitter.interval))
         IN  IF emitter.prev_global_xform.has
             THEN delta > 0 =>
                    /\ handed.translation = FAdd(Pprev, FMul(F(j - 1), step))
                    /\ handed.scale = ONE
             ELSE /\ handed.translation = Pcur
                  /\ handed.scale = ONE

----------------------------------------------------------------------------
\* Properties of the order of the update behaviors

\* C14: the update behaviors are independent of each other: the transform a
\* particle has at the end of Update is the same for every order in which
\* the behaviors' ticks run, so it is the one the order of registration
\* (Linear first, TargetTransform last of the two) produces.
C14_OrderIndependent ==
    (UpdateDone /\ clock # None)
    => \A i \in 1..Len(particles) :
         (/\ Matches("Linear", particles[i])
          /\ Matches("TargetTransform", particles[i]))
         => particles[i].transform =
              Visit("TargetTransform",
                    Visit("Linear", particles[i], clock), clock).transform

----------------------------------------------------------------------------
\* Properties of the initial transform

\* C15 as stated: after any sequence of frames, through every scheduler
\* pass, every closed-set update behavior, the dynamic-dispatch callback and
\* the reaper, a particle's initial transform still holds the value written
\* at its creation.
C15_InitialWrittenOnce ==
    \A i \in 1..Len(particles) :
        particles[i].initial_transform = particles[i].initial_at_creation

\* C15, amended: the scheduler, the closed-set update behaviors and the
\* reaper never write a particle's initial transform; it differs from the
\* value written at creation only on a particle whose own callback, handed
\* the initial transform mutably by DynParticleUpdate::tick, has written it.
C15_InitialWrittenOnlyByCallback ==
    \A i \in 1..Len(particles) :
        particles[i].initial_transform # particles[i].initial_at_creation
        => /\ QueryOf("DynParticleUpdate") \subseteq particles[i].components
           /\ particles[i].callback = "reset"

C15_Witness ==
    /\ FrameOver
    /\ \E i, j \in 1..Len(particles) :
         /\ particles[i].callback = "observe"
         /\ QueryOf("DynParticleUpdate") \subseteq particles[i].components
         /\ particles[i].alive
         /\ particles[i].transform # particles[i].initial_transform
         /\ particles[i].initial_transform = particles[i].initial_at_creation
         /\ ~particles[j].alive
         /\ particles[j].initial_transform = particles[j].initial_at_creation

----------------------------------------------------------------------------
\* Properties of target interpolation

----------------------------------------------------------------------------
\* Properties of a skipped pass

\* C18: a scheduler pass in which the clock has no timestamp, or in which
\* now < last_spawn, is a no-op for the emitter: the pass ends at once, it
\* queues no spawn and no add_child, and last_spawn and the RNG state are
\* what they were.
C18_SkippedPassNoOp ==
    [][(/\ phase = "PreUpdate"
        /\ loc.pc = "idle"
        /\ (clock = None \/ clock < emitter.last_spawn))
       => /\ phase' = "ApplyPre"
          /\ loc' = Idle
          /\ cmds' = cmds
          /\ particles' = particles
          /\ emitter'.last_spawn = emitter.last_spawn
          /\ emitter'.rng = emitter.rng]_vars

C18_Witness ==
    /\ PassDone
    /\ clock # None
    /\ clock < emitter.last_spawn
    /\ emitter.interval <= emitter.last_spawn - clock
    /\ particles = <<>>

----------------------------------------------------------------------------
\* Properties of the catch-up loop

\* last_spawn as the pass that is running found it
PassStart == emitter.last_spawn - Len(PassSpawns) * emitter.interval

\* C19: for interval > 0 and any jitter the catch-up loop of a pass
\* terminates after at most floor((now - last_spawn) / interval) iterations,
\* whatever the jitter samples: the iterations done plus those the remaining
\* backlog still allows never exceed that number.
C19_LoopBounded ==
    (phase = "PreUpdate" /\ loc.pc = "loop" /\ emitter.interval > 0)
    => Len(PassSpawns) + (loc.remaining \div emitter.interval)
         <= (clock - PassStart) \div emitter.interval

C19_Witness ==
    /\ phase = "PreUpdate"
    /\ loc.pc = "loop"
    /\ ~LoopCond(loc.remaining, emitter.interval)
    /\ emitter.jitter > 0
    /\ Len(PassSpawns) >= 2
    /\ Len(PassSpawns) < (clock - PassStart) \div emitter.interval


====
